---------------------------- MODULE Spec2Model ----------------------------
(***************************************************************************)
(* annmas "segment" command (src/src/annmas/segment/command.py).           *)
(*                                                                         *)
(* Two state machines are modelled:                                        *)
(*   - the producer / worker / writer pipeline of main(),                  *)
(*     _sub_process_work_fn() and _sub_process_write_fn()  (Spec, FairSpec)*)
(*   - the scan and write loops of _write_segmented_read() on one read     *)
(*     (SegSpec).                                                          *)
(* The splitting of a read is also available as the operator               *)
(* write_segmented_read, which the writer process of the pipeline applies. *)
(***************************************************************************)
EXTENDS Integers, Sequences, FiniteSets, TLC

(***************************************************************************)
(* Bounds of the model.                                                    *)
(***************************************************************************)
MaxThreads == 2
MaxReads == 2
MaxSegs == 4
MaxWidth == 2
MaxCpu == 6

(***************************************************************************)
(* Python values.                                                          *)
(***************************************************************************)
\* The exit sentinel None put on the two queues (command.py:121, 134).
None == [sentinel |-> TRUE, read |-> 0, segments |-> <<>>]

Min(a, b) == IF a <= b THEN a ELSE b

Max(a, b) == IF a >= b THEN a ELSE b

\* Python's s[a:b] on a sequence of length n, as the 0-based positions it
\* selects: negative indices count from the end, both are clamped to 0..n.
PySlice(n, a, b) ==
    LET lo == IF a < 0 THEN Max(a + n, 0) ELSE Min(a, n)
        hi == IF b < 0 THEN Max(b + n, 0) ELSE Min(b, n)
    IN  [k \in 1..Max(hi - lo, 0) |-> lo + k - 1]

\* sum(...) of a sequence of integers.
RECURSIVE SumSeq(_)
SumSeq(s) == IF s = <<>> THEN 0 ELSE Head(s) + SumSeq(Tail(s))

\* s[-k:] for a tuple s (the last k items, or all of s if it is shorter).
LastN(s, k) == SubSeq(s, Max(Len(s) - k, 0) + 1, Len(s))

\* s[0:k] for a tuple s.
FirstN(s, k) == SubSeq(s, 1, Min(Len(s), k))


(***************************************************************************)
(* Reads, segments and the structural template.                            *)
(*   segment : [name, start, end]            (SegmentInfo)                 *)
(*   read    : [query_name, has_tag, segments, seq_len]                    *)
(* A read's bases are named by their 0-based positions; has_tag says       *)
(* whether the read carries SEGMENTS_TAG.                                   *)
(***************************************************************************)
Labels == {"A", "B", "C", "x"}

\* array_element_structure is imported from ..utils.model (command.py:14),
\* which is not among the sources: an ordered tuple of element templates,
\* each an ordered tuple of segment labels.
TemplateChoices ==
    { << <<"A", "B", "C">> >>,
      << <<"A", "x", "B">>, <<"B", "x", "C">>, <<"C", "x", "A">> >>,
      << <<"A">>, <<"B">>, <<"C">> >>,
      << <<"A", "B", "x", "x">> >> }

\* The template the pipeline runs with.
PipelineTemplate == << <<"A", "B", "C">> >>

\* Contiguous segments of width w carrying the labels names, from base 0.
SegmentsOf(names, w) ==
    [k \in 1..Len(names) |->
        [name |-> names[k], start |-> (k - 1) * w, end |-> k * w - 1]]

LabelSeqs(n) == UNION { [1..k -> Labels] : k \in 1..n }

\* Variant: a segment that starts on seg_end_coord is left out.
RECURSIVE SegmentsInSpanStrict(_, _, _)
SegmentsInSpanStrict(segments, seg_start_coord, seg_end_coord) ==
    IF segments = <<>> THEN <<>>
    ELSE (IF seg_start_coord <= Head(segments).start
             /\ Head(segments).start < seg_end_coord
          THEN <<Head(segments)>> ELSE <<>>)
         \o SegmentsInSpanStrict(Tail(segments), seg_start_coord, seg_end_coord)

\* [s for s in segments if seg_start_coord <= s.start <= seg_end_coord]
RECURSIVE SegmentsInSpan(_, _, _)
SegmentsInSpan(segments, seg_start_coord, seg_end_coord) ==
    IF segments = <<>> THEN <<>>
    ELSE (IF seg_start_coord <= Head(segments).start
             /\ Head(segments).start <= seg_end_coord
          THEN <<Head(segments)>> ELSE <<>>)
         \o SegmentsInSpan(Tail(segments), seg_start_coord, seg_end_coord)

(***************************************************************************)
(* The text of the segments tag.  SegmentInfo.to_tag and                   *)
(* SegmentInfo.from_tag are imported from ..annotate.command               *)
(* (command.py:13), which is not among the sources: a segment is written   *)
(* as the token label:start-end and read back from such a token.  The text *)
(* of a tag is kept as the sequence of its tokens and separators.          *)
(***************************************************************************)
NoSegment == [name |-> "", start |-> 0, end |-> 0]

\* s.to_tag(): the token of segment s.
to_tag(s) == [kind |-> "token", seg |-> s]

\* A separator character of the tag text.
Separator(c) == [kind |-> c, seg |-> NoSegment]

\* sep.join(tokens).
RECURSIVE Join(_, _)
Join(sep, tokens) ==
    IF tokens = <<>> THEN <<>>
    ELSE IF Len(tokens) = 1 THEN tokens
    ELSE <<Head(tokens), Separator(sep)>> \o Join(sep, Tail(tokens))

\* text.split(sep): the pieces between the separators, at least one piece.
RECURSIVE Split(_, _)
Split(text, sep) ==
    LET at == { k \in 1..Len(text) : text[k].kind = sep }
    IN  IF at = {} THEN <<text>>
        ELSE LET k == CHOOSE k \in at : \A q \in at : k <= q
             IN  <<SubSeq(text, 1, k - 1)>>
                 \o Split(SubSeq(text, k + 1, Len(text)), sep)

\* Whether SegmentInfo.from_tag is given the text of exactly one token.
IsToken(piece) == Len(piece) = 1 /\ piece[1].kind = "token"

\* SegmentInfo.from_tag(piece) for the text of one token.
from_tag(piece) == piece[1].seg

\* The separator of the tag written for an element (command.py:449).
WrittenTagSeparator == ","

\* What _get_segments decodes from the text of a tag (command.py:457):
\* [SegmentInfo.from_tag(s) for s in tag.split("|")].  A piece that is not
\* the text of one token is not a tag token: malformed says so, and the
\* segments are those of the pieces that are tokens.
DecodeTag(text) ==
    LET pieces == Split(text, "|")
    IN  [ malformed |-> \E k \in 1..Len(pieces) : ~IsToken(pieces[k]),
          pieces    |-> Len(pieces),
          segments  |-> [k \in 1..Len(SelectSeq(pieces, IsToken)) |->
                            from_tag(SelectSeq(pieces, IsToken)[k])] ]

\* read.query_sequence of a record that holds no bases is None, not the empty
\* string, so that subscripting it (command.py:440) or taking its length
\* (command.py:315) raises TypeError.
query_sequence_is_None(read) == read.seq_len = 0

(***************************************************************************)
(* _write_split_array_element: the record written for one array element.   *)
(* The name f"{query_name}_{start}-{end}_{prev}-{delim}" is kept as the     *)
(* tuple of its parts; a delimiter name "/".join(labels) is kept as the    *)
(* tuple of labels.  segments_tag is the list of segments attached,        *)
(* sg_tag the text of the tag they are written as.                         *)
(***************************************************************************)
write_split_array_element(start_coord, end_coord, seg_start_coord, seg_end_coord, read, segments, delim_name, prev_delim_name) ==
    [ query_name     |-> <<read.query_name, start_coord, end_coord,
                           prev_delim_name, delim_name>>,
      start_coord    |-> start_coord,
      end_coord      |-> end_coord,
      query_sequence |-> PySlice(read.seq_len, start_coord, end_coord + 1),
      segments_tag   |-> SegmentsInSpan(segments, seg_start_coord, seg_end_coord),
      sg_tag         |-> Join(WrittenTagSeparator,
                              [k \in 1..Len(SegmentsInSpan(segments, seg_start_coord,
                                                           seg_end_coord)) |->
                                  to_tag(SegmentsInSpan(segments, seg_start_coord,
                                                        seg_end_coord)[k])]) ]


(***************************************************************************)
(* _write_segmented_read, simple splitting (command.py:219-326).           *)
(***************************************************************************)
num_required_delimiters == 2

\* The delimiter windows built from the template (command.py:223-231).
SimpleDelimiters(aes) ==
    LET first == LastN(aes[1], num_required_delimiters)
                 \o (IF Len(aes) >= 2
                     THEN FirstN(aes[2], num_required_delimiters) ELSE <<>>)
    IN  <<first>> \o [k \in 1..Max(Len(aes) - 2, 0) |->
                         FirstN(aes[k + 2], num_required_delimiters)]

\* The state of one delimiter window: its counter, its captured start
\* segment and its (start, end) tuple; <<>> stands for None.
SimpleInit == [count |-> 0, start |-> <<>>, end_tuple |-> <<>>]

\* Variant: a segment after the completion clears the window.
SimpleMatchClearComplete(delimiter, m, seg) ==
    IF m.count >= Len(delimiter)
    THEN SimpleInit
    ELSE IF seg.name = delimiter[m.count + 1]
         THEN LET start == IF m.count = 0 THEN <<seg>> ELSE m.start
              IN  [ count     |-> m.count + 1,
                    start     |-> start,
                    end_tuple |-> IF m.count + 1 = Len(delimiter)
                                  THEN <<start[1], seg>> ELSE m.end_tuple ]
         ELSE SimpleInit

\* Variant: a mismatching segment leaves the window as it is.
SimpleMatchNoReset(delimiter, m, seg) ==
    IF m.count >= Len(delimiter)
    THEN m
    ELSE IF seg.name = delimiter[m.count + 1]
         THEN LET start == IF m.count = 0 THEN <<seg>> ELSE m.start
              IN  [ count     |-> m.count + 1,
                    start     |-> start,
                    end_tuple |-> IF m.count + 1 = Len(delimiter)
                                  THEN <<start[1], seg>> ELSE m.end_tuple ]
         ELSE m

\* One pass of the inner loop body (command.py:248-269) for window
\* delimiter, whose state is m, on segment seg.
SimpleMatch(delimiter, m, seg) ==
    IF m.count >= Len(delimiter)
    THEN m                                  \* IndexError: pass
    ELSE IF seg.name = delimiter[m.count + 1]
         THEN LET start == IF m.count = 0 THEN <<seg>> ELSE m.start
              IN  [ count     |-> m.count + 1,
                    start     |-> start,
                    end_tuple |-> IF m.count + 1 = Len(delimiter)
                                  THEN <<start[1], seg>> ELSE m.end_tuple ]
         ELSE SimpleInit

\* delimiter_match_matrix, delimiter_start_segments and
\* delimiter_end_segment_tuples as initialised at command.py:236-241.
SimpleInitAll(aes) == [i \in 1..Len(SimpleDelimiters(aes)) |-> SimpleInit]

\* One iteration of the outer loop (command.py:245-269): every window sees seg.
SimpleScanStep(delimiters, ms, seg) ==
    [i \in 1..Len(delimiters) |-> SimpleMatch(delimiters[i], ms[i], seg)]

\* The outer loop over the segments, from window states ms.  (The states
\* after each segment are bound as values: they are computed once.)
RECURSIVE SimpleScan(_, _, _)
SimpleScan(delimiters, ms, segments) ==
    IF segments = <<>> THEN ms
    ELSE CHOOSE r \in { SimpleScan(delimiters, n, Tail(segments)) :
                          n \in {SimpleScanStep(delimiters, ms, Head(segments))} } : TRUE

\* Variant: the completed windows are left in window order.
RECURSIVE SortByIndex(_, _)
SortByIndex(S, ms) ==
    IF S = {} THEN <<>>
    ELSE LET i == CHOOSE i \in S : \A j \in S : i <= j
         IN  <<i>> \o SortByIndex(S \ {i}, ms)

\* seg_delimiters (command.py:275-282): the indices of the windows whose end
\* tuple is filled in, sorted (stably) by the start segment's coordinate.
RECURSIVE SortByStart(_, _)
SortByStart(S, ms) ==
    IF S = {} THEN <<>>
    ELSE LET i == CHOOSE i \in S : \A j \in S :
                    \/ ms[i].start[1].start < ms[j].start[1].start
                    \/ ms[i].start[1].start = ms[j].start[1].start /\ i <= j
         IN  <<i>> \o SortByStart(S \ {i}, ms)

SegDelimiters(ms) ==
    SortByStart({i \in 1..Len(ms) : ms[i].end_tuple # <<>>}, ms)

\* Variant: the last element ends one past the read's last base.
LastElementEndPast(read) == read.seq_len

\* seg_end_coord of the last element: len(read.query_sequence) - 1
\* (command.py:315).
LastElementEnd(read) == read.seq_len - 1

\* Variant: the next element starts after the delimiter in either case.
NextReadBaseIndexAfter(end_seg_tuple, keep_delimiters) ==
    end_seg_tuple[2].end + 1

\* cur_read_base_index after an element is written (command.py:309).
NextReadBaseIndex(end_seg_tuple, keep_delimiters) ==
    IF keep_delimiters THEN end_seg_tuple[1].start
    ELSE end_seg_tuple[2].end + 1

\* The slicing loop and the last element (command.py:284-324).
RECURSIVE SimpleSlices(_, _, _, _, _, _, _, _)
SimpleSlices(order, ms, delimiters, read, segments, keep_delimiters, cur_read_base_index, prev_delim_name) ==
    IF order = <<>>
    THEN << write_split_array_element(cur_read_base_index, LastElementEnd(read),
                                      cur_read_base_index, LastElementEnd(read),
                                      read, segments, <<"END">>, prev_delim_name) >>
    ELSE LET di == Head(order)
             start_seg == ms[di].start[1]
             end_seg_tuple == ms[di].end_tuple
             seg_end_coord == end_seg_tuple[2].end
             end_coord == IF keep_delimiters THEN seg_end_coord
                          ELSE start_seg.start - 1
             next == NextReadBaseIndex(end_seg_tuple, keep_delimiters)
         IN  << write_split_array_element(cur_read_base_index, end_coord,
                                          cur_read_base_index, seg_end_coord,
                                          read, segments, delimiters[di],
                                          prev_delim_name) >>
             \o SimpleSlices(Tail(order), ms, delimiters, read, segments,
                             keep_delimiters, next, delimiters[di])

\* The write phase of simple splitting: what was written, whether an
\* exception was raised, and the value returned.
\* With read.query_sequence None the first element's slice (command.py:440)
\* or, with no window complete, len(read.query_sequence) (command.py:315)
\* raises TypeError before anything is written.
SimpleWrite(ms, aes, read, segments, keep_delimiters) ==
    IF query_sequence_is_None(read)
    THEN [ elements |-> <<>>, raised |-> TRUE, ret |-> 0 ]
    ELSE
    [ elements |-> SimpleSlices(SegDelimiters(ms), ms, SimpleDelimiters(aes),
                                read, segments, keep_delimiters, 0, <<"START">>),
      raised   |-> FALSE,
      ret      |-> Len(SegDelimiters(ms)) ]

(***************************************************************************)
(* _write_segmented_read, bounded region splitting (command.py:327-423).   *)
(***************************************************************************)
match_val == 2
indel_val == 1

\* The state of one element template: counter, captured segments,
\* completion flag and score.
BoundedInit == [count |-> 0, segs |-> <<>>, found |-> FALSE, score |-> 0]

\* The peek-ahead offsets tried, range(1, len(delimiters[i]) - counter),
\* that hit the segment's label (command.py:364-367).
PeekHits(delimiter, m, seg) ==
    { p \in 1..(Len(delimiter) - m.count - 1) :
        seg.name = delimiter[m.count + p + 1] }

\* Variant: a template is marked complete only by the segment after its
\* last label.
BoundedMatchLateFound(delimiter, m, seg) ==
    IF m.found THEN m
    ELSE IF m.count >= Len(delimiter)
    THEN [m EXCEPT !.found = TRUE]
    ELSE
      LET hits == IF m.count # 0 THEN PeekHits(delimiter, m, seg) ELSE {}
      IN  IF seg.name = delimiter[m.count + 1]
          THEN [m EXCEPT !.count = m.count + 1,
                         !.segs  = Append(m.segs, seg),
                         !.score = m.score + match_val]
          ELSE IF hits # {}
          THEN LET peek_ahead == CHOOSE p \in hits : \A q \in hits : p <= q
               IN  [m EXCEPT !.count = m.count + 1 + peek_ahead,
                             !.segs  = Append(m.segs, seg),
                             !.score = m.score + indel_val]
          ELSE BoundedInit

\* Variant: the peek-ahead is also tried when nothing is matched yet.
BoundedMatchPeekAtZero(delimiter, m, seg) ==
    IF m.found THEN m
    ELSE IF m.count >= Len(delimiter)
    THEN [m EXCEPT !.found = TRUE]
    ELSE
      LET hits == PeekHits(delimiter, m, seg)
          n == IF seg.name = delimiter[m.count + 1]
               THEN [m EXCEPT !.count = m.count + 1,
                              !.segs  = Append(m.segs, seg),
                              !.score = m.score + match_val]
               ELSE IF hits # {}
               THEN LET peek_ahead == CHOOSE p \in hits : \A q \in hits : p <= q
                    IN  [m EXCEPT !.count = m.count + 1 + peek_ahead,
                                  !.segs  = Append(m.segs, seg),
                                  !.score = m.score + indel_val]
               ELSE BoundedInit
      IN  [n EXCEPT !.found = (n.count = Len(delimiter))]

\* Variant: a reset leaves the score as it was.
BoundedMatchKeepScore(delimiter, m, seg) ==
    IF m.found THEN m
    ELSE IF m.count >= Len(delimiter)
    THEN [m EXCEPT !.found = TRUE]
    ELSE
      LET hits == IF m.count # 0 THEN PeekHits(delimiter, m, seg) ELSE {}
          n == IF seg.name = delimiter[m.count + 1]
               THEN [m EXCEPT !.count = m.count + 1,
                              !.segs  = Append(m.segs, seg),
                              !.score = m.score + match_val]
               ELSE IF hits # {}
               THEN LET peek_ahead == CHOOSE p \in hits : \A q \in hits : p <= q
                    IN  [m EXCEPT !.count = m.count + 1 + peek_ahead,
                                  !.segs  = Append(m.segs, seg),
                                  !.score = m.score + indel_val]
               ELSE [BoundedInit EXCEPT !.score = m.score]
      IN  [n EXCEPT !.found = (n.count = Len(delimiter))]

\* One pass of the inner loop body (command.py:351-388) for template
\* delimiter, whose state is m, on segment seg.
BoundedMatch(delimiter, m, seg) ==
    IF m.found THEN m
    ELSE IF m.count >= Len(delimiter)
    THEN [m EXCEPT !.found = TRUE]          \* IndexError: marked complete
    ELSE
      LET hits == IF m.count # 0 THEN PeekHits(delimiter, m, seg) ELSE {}
          n == IF seg.name = delimiter[m.count + 1]
               THEN [m EXCEPT !.count = m.count + 1,
                              !.segs  = Append(m.segs, seg),
                              !.score = m.score + match_val]
               ELSE IF hits # {}
               THEN LET peek_ahead == CHOOSE p \in hits : \A q \in hits : p <= q
                    IN  [m EXCEPT !.count = m.count + 1 + peek_ahead,
                                  !.segs  = Append(m.segs, seg),
                                  !.score = m.score + indel_val]
               ELSE BoundedInit
      IN  [n EXCEPT !.found = (n.count = Len(delimiter))]

\* delimiter_match_matrix, delimiter_segments, delimiter_found and
\* delimiter_score as initialised at command.py:337-340.
BoundedInitAll(aes) == [i \in 1..Len(aes) |-> BoundedInit]

\* One iteration of the outer loop (command.py:348-388).
BoundedScanStep(delimiters, ms, seg) ==
    [i \in 1..Len(delimiters) |-> BoundedMatch(delimiters[i], ms[i], seg)]

\* The outer loop over the segments, from template states ms.
RECURSIVE BoundedScan(_, _, _)
BoundedScan(delimiters, ms, segments) ==
    IF segments = <<>> THEN ms
    ELSE CHOOSE r \in { BoundedScan(delimiters, n, Tail(segments)) :
                          n \in {BoundedScanStep(delimiters, ms, Head(segments))} } : TRUE

\* Whether writing template state m raises IndexError (command.py:395-401):
\* seg_list[0] on an empty list, seg_list[1] / seg_list[-2] on a shorter one.
BoundedRaises(m, keep_delimiters) ==
    m.found /\ (Len(m.segs) = 0 \/ (~keep_delimiters /\ Len(m.segs) < 2))

\* The element written for a completed template (command.py:395-419).
BoundedElement(m, read, keep_delimiters) ==
    LET seg_list == m.segs
        start_seg == seg_list[1]
        end_seg == seg_list[Len(seg_list)]
        start_coord == IF keep_delimiters THEN start_seg.start
                       ELSE seg_list[2].start
        end_coord == IF keep_delimiters THEN end_seg.end
                     ELSE seg_list[Len(seg_list) - 1].end
    IN  write_split_array_element(start_coord, end_coord, start_seg.start,
                                  end_seg.end, read, seg_list,
                                  <<end_seg.name>>, <<start_seg.name>>)

\* Variant: the value returned also counts the templates in progress.
RECURSIVE BoundedWriteFromCountPartial(_, _, _, _)
BoundedWriteFromCountPartial(i, ms, read, keep_delimiters) ==
    IF i > Len(ms)
    THEN [ elements |-> <<>>, raised |-> FALSE,
           ret |-> Cardinality({j \in 1..Len(ms) : ms[j].count > 0}) ]
    ELSE IF ~ms[i].found
    THEN BoundedWriteFromCountPartial(i + 1, ms, read, keep_delimiters)
    ELSE IF BoundedRaises(ms[i], keep_delimiters) \/ query_sequence_is_None(read)
    THEN [ elements |-> <<>>, raised |-> TRUE, ret |-> 0 ]
    ELSE LET rest == BoundedWriteFromCountPartial(i + 1, ms, read, keep_delimiters)
         IN  [rest EXCEPT !.elements =
                 <<BoundedElement(ms[i], read, keep_delimiters)>> \o @]

\* The write loop (command.py:392-423) from template i on.  The first
\* template found raises when its list is too short for the indices taken
\* (command.py:400-401) or when read.query_sequence is None (command.py:440).
RECURSIVE BoundedWriteFrom(_, _, _, _)
BoundedWriteFrom(i, ms, read, keep_delimiters) ==
    IF i > Len(ms)
    THEN [ elements |-> <<>>, raised |-> FALSE,
           ret |-> Cardinality({j \in 1..Len(ms) : ms[j].found}) ]
    ELSE IF ~ms[i].found THEN BoundedWriteFrom(i + 1, ms, read, keep_delimiters)
    ELSE IF BoundedRaises(ms[i], keep_delimiters) \/ query_sequence_is_None(read)
    THEN [ elements |-> <<>>, raised |-> TRUE, ret |-> 0 ]
    ELSE LET rest == BoundedWriteFrom(i + 1, ms, read, keep_delimiters)
         IN  [rest EXCEPT !.elements =
                 <<BoundedElement(ms[i], read, keep_delimiters)>> \o @]

BoundedWrite(ms, read, keep_delimiters) ==
    BoundedWriteFrom(1, ms, read, keep_delimiters)

(***************************************************************************)
(* _write_segmented_read as a whole (command.py:205-423): the elements     *)
(* written to bam_out, whether an exception was raised, the value returned.*)
(***************************************************************************)
write_segmented_read(aes, read, segments, do_simple_splitting, keep_delimiters) ==
    IF do_simple_splitting
    THEN CHOOSE r \in { SimpleWrite(ms, aes, read, segments, keep_delimiters) :
                          ms \in {SimpleScan(SimpleDelimiters(aes),
                                             SimpleInitAll(aes), segments)} } : TRUE
    ELSE CHOOSE r \in { BoundedWrite(ms, read, keep_delimiters) :
                          ms \in {BoundedScan(aes, BoundedInitAll(aes), segments)} } : TRUE

(***************************************************************************)
(* State.                                                                  *)
(***************************************************************************)
VARIABLES
    \* command line and input of a run
    threads_arg,              \* the value --threads was given (command.py:30-37)
    cpu_count,                \* mp.cpu_count()
    threads,                  \* main's threads: the worker count (command.py:68)
    do_simple_splitting,
    keep_delimiters,
    array_element_structure,
    bam_file,                 \* the input reads, in file order
    \* main()
    main_pc,                  \* "put", "join", "join_writer", "finished"
    iter_pos,                 \* items of iter_data already put (command.py:121)
    joined,                   \* workers already joined (command.py:129)
    process_input_data_queue, \* manager.Queue(threads)
    results,                  \* manager.Queue()
    \* _sub_process_work_fn, one per worker
    worker_pc,                \* "get", "process", "exited", "raised"
    worker_raw_data,
    \* _sub_process_write_fn
    writer_pc,                \* "get", "write", "exited", "raised"
    writer_raw_data,
    out_bam_file,             \* the records written, in order
    num_reads_segmented,
    num_segments,
    debug_log,                \* query names logged at command.py:184
    \* history: how often each input record / sentinel was dequeued
    dequeued,
    sentinels_seen,
    \* one call of _write_segmented_read, segment by segment
    seg_pc,                   \* "scan", "returned", "raised"
    seg_read,                 \* the read being split
    seg_pos,                  \* segments already scanned
    delimiter_match_matrix,
    delimiter_start_segments,
    delimiter_end_segment_tuples,
    delimiter_segments,
    delimiter_found,
    delimiter_score,
    bam_out,                  \* the records this call has written
    seg_return                \* the value returned

pipeline_vars ==
    << threads_arg, cpu_count, threads, do_simple_splitting, keep_delimiters, array_element_structure,
       bam_file, main_pc, iter_pos, joined, process_input_data_queue, results,
       worker_pc, worker_raw_data, writer_pc, writer_raw_data, out_bam_file,
       num_reads_segmented, num_segments, debug_log, dequeued, sentinels_seen >>

seg_vars ==
    << seg_pc, seg_read, seg_pos, delimiter_match_matrix,
       delimiter_start_segments, delimiter_end_segment_tuples,
       delimiter_segments, delimiter_found, delimiter_score, bam_out,
       seg_return >>

vars == << pipeline_vars, seg_vars >>

(***************************************************************************)
(* The pipeline: main, workers, writer.                                    *)
(***************************************************************************)
\* The reads an input file is made of: one that holds the whole template,
\* one that holds none of its labels, one without the segments tag.
PipelineReadBodies ==
    { [has_tag |-> TRUE,  segments |-> SegmentsOf(<<"A", "B", "C">>, 2), seq_len |-> 6],
      [has_tag |-> TRUE,  segments |-> SegmentsOf(<<"x", "x">>, 2),      seq_len |-> 4],
      [has_tag |-> FALSE, segments |-> <<>>,                             seq_len |-> 4] }

ReadAt(body, k) ==
    [query_name |-> k, has_tag |-> body.has_tag,
     segments |-> body.segments, seq_len |-> body.seq_len]

\* The default of --threads: mp.cpu_count() - 1 (command.py:34).
DefaultThreads(cpus) == cpus - 1

\* Variant: a request is clamped into 1..cpus.
EffectiveThreadsClamped(t, cpus) ==
    IF t < 1 THEN 1 ELSE IF t > cpus THEN cpus ELSE t

\* threads as reassigned at command.py:68.
EffectiveThreads(t, cpus) == IF t <= 0 \/ t > cpus THEN cpus ELSE t

Workers == 1..threads

\* Variant: a queue one slot larger than the worker count.
InputQueueOneMore == threads + 1

\* The capacity of the input queue: manager.Queue(threads) (command.py:79).
InputQueueCapacity == threads

\* Variant: the file is read back to front.
IterDataReversed(k) ==
    IF k <= Len(bam_file)
    THEN [sentinel |-> FALSE, read |-> bam_file[Len(bam_file) + 1 - k],
          segments |-> <<>>]
    ELSE None

\* The k-th item (1-based) of itertools.chain(bam_file, (None,) * threads),
\* as put on the queue (command.py:121-126).
IterData(k) ==
    IF k <= Len(bam_file)
    THEN [sentinel |-> FALSE, read |-> bam_file[k], segments |-> <<>>]
    ELSE None

\* Variants: one sentinel too few, one too many.
IterDataLenShort == Len(bam_file) + threads - 1

IterDataLenExtra == Len(bam_file) + threads + 1

\* The number of items main puts on the input queue.
IterDataLen == Len(bam_file) + threads

\* _get_segments (command.py:455-457): raises if the read has no segments
\* tag, otherwise the read with its decoded segments.
get_segments_raises(read) == ~read.has_tag

\* Variant: the last token of the tag is lost.
get_segments_drop_last(read) ==
    [sentinel |-> FALSE, read |-> read,
     segments |-> SubSeq(read.segments, 1, Len(read.segments) - 1)]

get_segments(read) ==
    [sentinel |-> FALSE, read |-> read, segments |-> read.segments]

Terminated(pc) == pc \in {"exited", "raised"}

\* No call of _write_segmented_read is being followed step by step.
SegIdle ==
    /\ seg_pc = "idle"
    /\ seg_read = ReadAt([has_tag |-> TRUE, segments |-> <<>>, seq_len |-> 0], 0)
    /\ seg_pos = 0
    /\ delimiter_match_matrix = <<>>
    /\ delimiter_start_segments = <<>>
    /\ delimiter_end_segment_tuples = <<>>
    /\ delimiter_segments = <<>>
    /\ delimiter_found = <<>>
    /\ delimiter_score = <<>>
    /\ bam_out = <<>>
    /\ seg_return = 0

PipelineInit ==
    /\ cpu_count = MaxThreads
    /\ threads_arg \in 1..MaxThreads
    /\ threads = EffectiveThreads(threads_arg, cpu_count)
    /\ do_simple_splitting \in BOOLEAN
    /\ keep_delimiters \in BOOLEAN
    /\ array_element_structure = PipelineTemplate
    /\ \E m \in 0..MaxReads : \E bodies \in [1..m -> PipelineReadBodies] :
          bam_file = [k \in 1..m |-> ReadAt(bodies[k], k)]
    /\ main_pc = "put"
    /\ iter_pos = 0
    /\ joined = 0
    /\ process_input_data_queue = <<>>
    /\ results = <<>>
    /\ worker_pc = [w \in Workers |-> "get"]
    /\ worker_raw_data = [w \in Workers |-> None]
    /\ writer_pc = "get"
    /\ writer_raw_data = None
    /\ out_bam_file = <<>>
    /\ num_reads_segmented = 0
    /\ num_segments = 0
    /\ debug_log = <<>>
    /\ dequeued = [k \in 1..Len(bam_file) |-> 0]
    /\ sentinels_seen = [w \in Workers |-> 0]
    /\ SegIdle

run_vars ==
    << threads_arg, cpu_count, threads, do_simple_splitting, keep_delimiters, array_element_structure,
       bam_file >>

main_vars == << main_pc, iter_pos, joined >>

worker_vars == << worker_pc, worker_raw_data, dequeued, sentinels_seen >>

writer_vars ==
    << writer_pc, writer_raw_data, out_bam_file, num_reads_segmented,
       num_segments, debug_log >>

\* main, command.py:122-126: put the next record or sentinel; blocks while
\* the queue is full.
MainPut ==
    /\ main_pc = "put"
    /\ Len(process_input_data_queue) < InputQueueCapacity
    /\ process_input_data_queue' =
           Append(process_input_data_queue, IterData(iter_pos + 1))
    /\ iter_pos' = iter_pos + 1
    /\ main_pc' = IF iter_pos + 1 = IterDataLen THEN "join" ELSE "put"
    /\ UNCHANGED seg_vars
    /\ UNCHANGED << run_vars, joined, results, worker_vars, writer_vars >>

\* Variant: only the first worker is joined.
MainJoinWorkerFirstOnly ==
    /\ main_pc = "join"
    /\ joined < threads
    /\ Terminated(worker_pc[joined + 1])
    /\ joined' = threads
    /\ UNCHANGED seg_vars
    /\ UNCHANGED << run_vars, main_pc, iter_pos, process_input_data_queue,
                    results, worker_vars, writer_vars >>

\* main, command.py:129-130: p.join() returns once that worker has ended.
MainJoinWorker ==
    /\ main_pc = "join"
    /\ joined < threads
    /\ Terminated(worker_pc[joined + 1])
    /\ joined' = joined + 1
    /\ UNCHANGED seg_vars
    /\ UNCHANGED << run_vars, main_pc, iter_pos, process_input_data_queue,
                    results, worker_vars, writer_vars >>

\* Variant: the writer's sentinel is put without waiting for the workers.
MainPutSentinelEarly ==
    /\ main_pc = "join"
    /\ results' = Append(results, None)
    /\ main_pc' = "join_writer"
    /\ UNCHANGED seg_vars
    /\ UNCHANGED << run_vars, iter_pos, joined, process_input_data_queue,
                    worker_vars, writer_vars >>

\* main, command.py:134: the exit sentinel for the writer.
MainPutSentinel ==
    /\ main_pc = "join"
    /\ joined = threads
    /\ results' = Append(results, None)
    /\ main_pc' = "join_writer"
    /\ UNCHANGED seg_vars
    /\ UNCHANGED << run_vars, iter_pos, joined, process_input_data_queue,
                    worker_vars, writer_vars >>

\* main, command.py:135-137: join the writer, log "finished", return.
MainJoinWriter ==
    /\ main_pc = "join_writer"
    /\ Terminated(writer_pc)
    /\ main_pc' = "finished"
    /\ UNCHANGED seg_vars
    /\ UNCHANGED << run_vars, iter_pos, joined, process_input_data_queue,
                    results, worker_vars, writer_vars >>

\* _sub_process_work_fn, command.py:148-152: in_queue.get(), return on None.
WorkerGet(w) ==
    /\ w \in Workers
    /\ worker_pc[w] = "get"
    /\ process_input_data_queue # <<>>
    /\ LET raw_data == Head(process_input_data_queue)
       IN  /\ process_input_data_queue' = Tail(process_input_data_queue)
           /\ IF raw_data.sentinel
              THEN /\ worker_pc' = [worker_pc EXCEPT ![w] = "exited"]
                   /\ sentinels_seen' = [sentinels_seen EXCEPT ![w] = @ + 1]
                   /\ UNCHANGED << worker_raw_data, dequeued >>
              ELSE /\ worker_pc' = [worker_pc EXCEPT ![w] = "process"]
                   /\ worker_raw_data' = [worker_raw_data EXCEPT ![w] = raw_data]
                   /\ dequeued' = [dequeued EXCEPT ![raw_data.read.query_name] = @ + 1]
                   /\ UNCHANGED sentinels_seen
    /\ UNCHANGED seg_vars
    /\ UNCHANGED << run_vars, main_vars, results, writer_vars >>

\* _sub_process_work_fn, command.py:155-158: decode the segments and put the
\* result; an exception in _get_segments ends the worker.
WorkerProcess(w) ==
    /\ w \in Workers
    /\ worker_pc[w] = "process"
    /\ LET read == worker_raw_data[w].read
       IN  IF get_segments_raises(read)
           THEN /\ worker_pc' = [worker_pc EXCEPT ![w] = "raised"]
                /\ UNCHANGED results
           ELSE /\ results' = Append(results, get_segments(read))
                /\ worker_pc' = [worker_pc EXCEPT ![w] = "get"]
    /\ worker_raw_data' = [worker_raw_data EXCEPT ![w] = None]
    /\ UNCHANGED seg_vars
    /\ UNCHANGED << run_vars, main_vars, process_input_data_queue, dequeued,
                    sentinels_seen, writer_vars >>

\* Variant: the results queue hands out its newest item first.
WriterGetNewest ==
    /\ writer_pc = "get"
    /\ results # <<>>
    /\ results' = SubSeq(results, 1, Len(results) - 1)
    /\ IF results[Len(results)].sentinel
       THEN writer_pc' = "exited" /\ UNCHANGED writer_raw_data
       ELSE writer_pc' = "write" /\ writer_raw_data' = results[Len(results)]
    /\ UNCHANGED seg_vars
    /\ UNCHANGED << run_vars, main_vars, process_input_data_queue, worker_vars,
                    out_bam_file, num_reads_segmented, num_segments, debug_log >>

\* _sub_process_write_fn, command.py:173-177: out_queue.get(), break on None.
WriterGet ==
    /\ writer_pc = "get"
    /\ results # <<>>
    /\ results' = Tail(results)
    /\ IF Head(results).sentinel
       THEN writer_pc' = "exited" /\ UNCHANGED writer_raw_data
       ELSE writer_pc' = "write" /\ writer_raw_data' = Head(results)
    /\ UNCHANGED seg_vars
    /\ UNCHANGED << run_vars, main_vars, process_input_data_queue, worker_vars,
                    out_bam_file, num_reads_segmented, num_segments, debug_log >>

\* _sub_process_write_fn, command.py:180-197: split the read, write its
\* elements, count.
WriterWrite ==
    /\ writer_pc = "write"
    /\ LET read == writer_raw_data.read
           written == write_segmented_read(array_element_structure, read,
                          writer_raw_data.segments, do_simple_splitting,
                          keep_delimiters)
       IN  /\ debug_log' = Append(debug_log, read.query_name)
           /\ out_bam_file' = out_bam_file \o written.elements
           /\ IF written.raised
              THEN /\ writer_pc' = "raised"
                   /\ UNCHANGED << num_reads_segmented, num_segments >>
              ELSE /\ writer_pc' = "get"
                   /\ num_segments' = num_segments + written.ret
                   /\ num_reads_segmented' = num_reads_segmented + 1
    /\ writer_raw_data' = None
    /\ UNCHANGED seg_vars
    /\ UNCHANGED << run_vars, main_vars, process_input_data_queue, results,
                    worker_vars >>

Main == MainPut \/ MainJoinWorker \/ MainPutSentinel \/ MainJoinWriter

Worker(w) == WorkerGet(w) \/ WorkerProcess(w)

Writer == WriterGet \/ WriterWrite

Next ==
    \/ MainPut
    \/ MainJoinWorker
    \/ MainPutSentinel
    \/ MainJoinWriter
    \/ \E w \in 1..MaxThreads : WorkerGet(w)
    \/ \E w \in 1..MaxThreads : WorkerProcess(w)
    \/ WriterGet
    \/ WriterWrite

Spec == PipelineInit /\ [][Next]_vars

\* Every process that can take a step eventually takes one (the operating
\* system schedules each runnable process).
Fairness ==
    /\ WF_vars(Main)
    /\ \A w \in 1..MaxThreads : WF_vars(Worker(w))
    /\ WF_vars(Writer)

\* The flags only select what the writer computes for a read; the liveness
\* of the pipeline is checked for one setting of them.
FairInit == PipelineInit /\ ~do_simple_splitting /\ keep_delimiters

FairSpec == FairInit /\ [][Next]_vars /\ Fairness

(***************************************************************************)
(* _write_segmented_read on one read, one segment per step.                *)
(***************************************************************************)
\* The reads a call is followed on: 1..MaxSegs contiguous segments of equal
\* width 1..MaxWidth, with any labels, tiling the read.
SegReads ==
    { [query_name |-> 1, has_tag |-> TRUE, segments |-> SegmentsOf(names, w),
       seq_len |-> Len(names) * w] :
      names \in LabelSeqs(MaxSegs), w \in 1..MaxWidth }

\* The matcher's local lists as one state per window / template.
SimpleStates ==
    [i \in 1..Len(delimiter_match_matrix) |->
        [ count     |-> delimiter_match_matrix[i],
          start     |-> delimiter_start_segments[i],
          end_tuple |-> delimiter_end_segment_tuples[i] ]]

BoundedStates ==
    [i \in 1..Len(delimiter_match_matrix) |->
        [ count |-> delimiter_match_matrix[i],
          segs  |-> delimiter_segments[i],
          found |-> delimiter_found[i],
          score |-> delimiter_score[i] ]]

SetSimpleStates(ms) ==
    /\ delimiter_match_matrix' = [i \in 1..Len(ms) |-> ms[i].count]
    /\ delimiter_start_segments' = [i \in 1..Len(ms) |-> ms[i].start]
    /\ delimiter_end_segment_tuples' = [i \in 1..Len(ms) |-> ms[i].end_tuple]
    /\ UNCHANGED << delimiter_segments, delimiter_found, delimiter_score >>

SetBoundedStates(ms) ==
    /\ delimiter_match_matrix' = [i \in 1..Len(ms) |-> ms[i].count]
    /\ delimiter_segments' = [i \in 1..Len(ms) |-> ms[i].segs]
    /\ delimiter_found' = [i \in 1..Len(ms) |-> ms[i].found]
    /\ delimiter_score' = [i \in 1..Len(ms) |-> ms[i].score]
    /\ UNCHANGED << delimiter_start_segments, delimiter_end_segment_tuples >>

PipelineIdle ==
    /\ threads_arg = 1
    /\ cpu_count = 1
    /\ threads = 1
    /\ bam_file = <<>>
    /\ main_pc = "idle"
    /\ iter_pos = 0
    /\ joined = 0
    /\ process_input_data_queue = <<>>
    /\ results = <<>>
    /\ worker_pc = <<"idle">>
    /\ worker_raw_data = <<None>>
    /\ writer_pc = "idle"
    /\ writer_raw_data = None
    /\ out_bam_file = <<>>
    /\ num_reads_segmented = 0
    /\ num_segments = 0
    /\ debug_log = <<>>
    /\ dequeued = <<>>
    /\ sentinels_seen = <<0>>

\* The call's arguments and its locals as initialised at command.py:236-241
\* (simple) or 337-340 (bounded).
SegInit ==
    /\ PipelineIdle
    /\ array_element_structure \in TemplateChoices
    /\ do_simple_splitting \in BOOLEAN
    /\ keep_delimiters \in BOOLEAN
    /\ seg_read \in SegReads
    /\ seg_pc = "scan"
    /\ seg_pos = 0
    /\ LET n == IF do_simple_splitting
                THEN Len(SimpleDelimiters(array_element_structure))
                ELSE Len(array_element_structure)
       IN  /\ delimiter_match_matrix = [i \in 1..n |-> 0]
           /\ delimiter_start_segments =
                 IF do_simple_splitting THEN [i \in 1..n |-> <<>>] ELSE <<>>
           /\ delimiter_end_segment_tuples =
                 IF do_simple_splitting THEN [i \in 1..n |-> <<>>] ELSE <<>>
           /\ delimiter_segments =
                 IF do_simple_splitting THEN <<>> ELSE [i \in 1..n |-> <<>>]
           /\ delimiter_found =
                 IF do_simple_splitting THEN <<>> ELSE [i \in 1..n |-> FALSE]
           /\ delimiter_score =
                 IF do_simple_splitting THEN <<>> ELSE [i \in 1..n |-> 0]
    /\ bam_out = <<>>
    /\ seg_return = 0

\* One iteration of "for seg in segments" (command.py:245-269, 348-388).
ScanSegment ==
    /\ seg_pc = "scan"
    /\ seg_pos < Len(seg_read.segments)
    /\ LET seg == seg_read.segments[seg_pos + 1]
       IN  IF do_simple_splitting
           THEN SetSimpleStates(
                   SimpleScanStep(SimpleDelimiters(array_element_structure),
                                  SimpleStates, seg))
           ELSE SetBoundedStates(
                   BoundedScanStep(array_element_structure, BoundedStates, seg))
    /\ seg_pos' = seg_pos + 1
    /\ UNCHANGED << seg_pc, seg_read, bam_out, seg_return >>
    /\ UNCHANGED pipeline_vars

\* The write phase and the return (command.py:271-326, 390-423).
WriteElements ==
    /\ seg_pc = "scan"
    /\ seg_pos = Len(seg_read.segments)
    /\ LET written == IF do_simple_splitting
                      THEN SimpleWrite(SimpleStates, array_element_structure,
                                       seg_read, seg_read.segments, keep_delimiters)
                      ELSE BoundedWrite(BoundedStates, seg_read, keep_delimiters)
       IN  /\ bam_out' = written.elements
           /\ seg_return' = written.ret
           /\ seg_pc' = IF written.raised THEN "raised" ELSE "returned"
    /\ UNCHANGED << seg_read, seg_pos, delimiter_match_matrix,
                    delimiter_start_segments, delimiter_end_segment_tuples,
                    delimiter_segments, delimiter_found, delimiter_score >>
    /\ UNCHANGED pipeline_vars

SegNext == ScanSegment \/ WriteElements

SegSpec == SegInit /\ [][SegNext]_vars

(***************************************************************************)
(* The start of main: the worker count is settled (command.py:64-69).      *)
(***************************************************************************)
\* The values --threads is given: from below 0 to above the number of CPUs.
ThreadsArgs == (-2)..(MaxCpu + 2)

StartInit ==
    /\ cpu_count \in 1..MaxCpu
    /\ threads_arg \in ThreadsArgs
    /\ threads = threads_arg
    /\ do_simple_splitting = FALSE
    /\ keep_delimiters = FALSE
    /\ array_element_structure = PipelineTemplate
    /\ bam_file = <<>>
    /\ main_pc = "start"
    /\ iter_pos = 0
    /\ joined = 0
    /\ process_input_data_queue = <<>>
    /\ results = <<>>
    /\ worker_pc = <<>>
    /\ worker_raw_data = <<>>
    /\ writer_pc = "idle"
    /\ writer_raw_data = None
    /\ out_bam_file = <<>>
    /\ num_reads_segmented = 0
    /\ num_segments = 0
    /\ debug_log = <<>>
    /\ dequeued = <<>>
    /\ sentinels_seen = <<>>
    /\ SegIdle

\* main, command.py:68: threads is reassigned.
MainSetThreads ==
    /\ main_pc = "start"
    /\ threads' = EffectiveThreads(threads, cpu_count)
    /\ main_pc' = "started"
    /\ UNCHANGED seg_vars
    /\ UNCHANGED << threads_arg, cpu_count, do_simple_splitting, keep_delimiters,
                    array_element_structure, bam_file, iter_pos, joined,
                    process_input_data_queue, results, worker_vars, writer_vars >>

StartNext == MainSetThreads

StartSpec == StartInit /\ [][StartNext]_vars

(***************************************************************************)
(* Vocabulary of the properties.                                           *)
(***************************************************************************)
NumReads == Len(bam_file)

WorkerRaised == \E w \in Workers : worker_pc[w] = "raised"

AnyRaised == WorkerRaised \/ writer_pc = "raised"

AllWorkersExited == \A w \in Workers : worker_pc[w] = "exited"

\* The terminal state of the shutdown protocol: every worker has returned on
\* a sentinel, the writer has returned on its sentinel, main has returned.
AllDone == AllWorkersExited /\ writer_pc = "exited" /\ main_pc = "finished"

SentinelCount(q) == Cardinality({i \in 1..Len(q) : q[i].sentinel})

SentinelsSeen == SumSeq([w \in Workers |-> sentinels_seen[w]])

\* How many results for input record k are in the results queue, in the
\* writer's hands, or already handled by the writer.
ResultCount(k) ==
    Cardinality({i \in 1..Len(results) :
                    ~results[i].sentinel /\ results[i].read.query_name = k})
    + (IF ~writer_raw_data.sentinel /\ writer_raw_data.read.query_name = k
       THEN 1 ELSE 0)
    + Cardinality({i \in 1..Len(debug_log) : debug_log[i] = k})

\* The source read of each written record, in output order.
OutNames == [i \in 1..Len(out_bam_file) |-> out_bam_file[i].query_name[1]]

\* The written records that come from input record k, in output order.
ElementsOf(k) == SelectSeq(out_bam_file, LAMBDA e : e.query_name[1] = k)

IsSorted(s) == \A i, j \in 1..Len(s) : i < j => s[i] <= s[j]

(***************************************************************************)
(* C1. In a run in which no process raises, no state short of the terminal *)
(* state is a deadlock, and under fair scheduling the pipeline eventually  *)
(* reaches the terminal state (all workers exited on a sentinel, writer    *)
(* exited on its sentinel, main finished), for every worker count and      *)
(* every number of input records, zero included.                           *)
(***************************************************************************)
C1_Terminates == <>(AnyRaised \/ AllDone)

C1_Witness == AllDone /\ threads >= 2 /\ NumReads >= 2

(***************************************************************************)
(* C2. No record is dequeued twice or yields two results; when the writer  *)
(* has exited in a run without a raised process, every input record was    *)
(* dequeued by exactly one worker, yielded exactly one result, and that    *)
(* result was handled by the writer before its sentinel.                   *)
(***************************************************************************)
C2_ExactlyOnce ==
    /\ \A k \in 1..NumReads : dequeued[k] <= 1 /\ ResultCount(k) <= dequeued[k]
    /\ (writer_pc = "exited" /\ ~AnyRaised) =>
          /\ \A k \in 1..NumReads :
                /\ dequeued[k] = 1
                /\ Cardinality({i \in 1..Len(debug_log) : debug_log[i] = k}) = 1
          /\ num_reads_segmented = NumReads
          /\ results = <<>>

C2_Witness ==
    writer_pc = "exited" /\ ~AnyRaised /\ threads >= 2 /\ Len(debug_log) >= 2

(***************************************************************************)
(* C3. The producer puts at most N sentinels, exactly N once it has left   *)
(* its loop, all of them after the last record; a worker has exited        *)
(* exactly if it has consumed one sentinel, and none consumes two; no      *)
(* worker has exited while a record is in, or still to be put on, the      *)
(* input queue; once all N workers have exited the input queue is empty.   *)
(***************************************************************************)
C3_SentinelPerWorker ==
    LET q == process_input_data_queue
        put == SentinelCount(q) + SentinelsSeen
    IN  /\ put = Max(iter_pos - NumReads, 0)
        /\ put <= threads
        /\ main_pc # "put" => put = threads
        /\ \A i, j \in 1..Len(q) : (i < j /\ q[i].sentinel) => q[j].sentinel
        /\ \A w \in Workers :
              /\ sentinels_seen[w] <= 1
              /\ (worker_pc[w] = "exited") <=> (sentinels_seen[w] = 1)
              /\ worker_pc[w] = "exited" =>
                    /\ iter_pos >= NumReads
                    /\ \A i \in 1..Len(q) : q[i].sentinel
        /\ AllWorkersExited => q = <<>> /\ iter_pos = NumReads + threads

C3_Witness ==
    /\ AllWorkersExited /\ threads >= 2 /\ NumReads >= 1
    /\ process_input_data_queue = <<>>

(***************************************************************************)
(* C4. At most one sentinel is ever put on the results queue and exactly   *)
(* one once main has passed command.py:134; it is put only after all N     *)
(* workers have ended; every result precedes it in the queue; the writer   *)
(* has not exited while a result is pending or a worker can still produce  *)
(* one.                                                                    *)
(***************************************************************************)
C4_WriterSentinel ==
    LET put == SentinelCount(results) + (IF writer_pc = "exited" THEN 1 ELSE 0)
    IN  /\ put <= 1
        /\ main_pc \in {"join_writer", "finished"} <=> put = 1
        /\ put = 1 => \A w \in Workers : Terminated(worker_pc[w])
        /\ \A i \in 1..Len(results) : results[i].sentinel => i = Len(results)
        /\ writer_pc = "exited" =>
              /\ results = <<>>
              /\ \A w \in Workers : Terminated(worker_pc[w])

C4_Witness == writer_pc = "exited" /\ num_reads_segmented >= 2 /\ threads >= 2

(***************************************************************************)
(* C5. The input queue never holds more than N items; the producer's put   *)
(* can proceed exactly while the queue holds fewer than N items; a         *)
(* worker's put on the results queue can always proceed.                   *)
(***************************************************************************)
C5_Backpressure ==
    /\ Len(process_input_data_queue) <= threads
    /\ main_pc = "put" =>
          (ENABLED MainPut <=> Len(process_input_data_queue) < threads)
    /\ \A w \in Workers : worker_pc[w] = "process" => ENABLED WorkerProcess(w)

C5_Witness ==
    /\ main_pc = "put" /\ threads >= 2
    /\ Len(process_input_data_queue) = threads
    /\ \E w \in Workers : worker_pc[w] = "process"

(***************************************************************************)
(* C6 as stated: the records written are in input order, for every worker  *)
(* count.                                                                  *)
(***************************************************************************)
C6_InputOrder == IsSorted(OutNames)

(***************************************************************************)
(* C6 amended: with one worker the records written are in input order;    *)
(* with any worker count the records are written in the order in which     *)
(* the writer takes the results, those of one read next to each other.     *)
(***************************************************************************)
C6_OrderSingleWorker ==
    /\ threads = 1 => IsSorted(OutNames)
    /\ \A i, j \in 1..Len(OutNames) :
          i < j => \E a, b \in 1..Len(debug_log) :
                      a <= b /\ debug_log[a] = OutNames[i] /\ debug_log[b] = OutNames[j]

C6_Witness ==
    /\ threads = 1 /\ writer_pc = "exited"
    /\ \E i, j \in 1..Len(OutNames) : OutNames[i] < OutNames[j]

(***************************************************************************)
(* C7. The records written for a read are those the splitting function     *)
(* gives for that read's own segment list, the template and the two flags, *)
(* whatever the worker count, the interleaving and the reads handled       *)
(* before it; in the terminal state this holds of every input read.        *)
(***************************************************************************)
C7_PerReadFunction ==
    /\ \A k \in 1..NumReads :
          ElementsOf(k) =
             IF \E i \in 1..Len(debug_log) : debug_log[i] = k
             THEN write_segmented_read(array_element_structure, bam_file[k],
                      bam_file[k].segments, do_simple_splitting,
                      keep_delimiters).elements
             ELSE <<>>
    /\ AllDone => \A k \in 1..NumReads : \E i \in 1..Len(debug_log) : debug_log[i] = k

C7_Witness ==
    /\ AllDone /\ threads >= 2 /\ ~IsSorted(debug_log)
    /\ Len(out_bam_file) >= 2

(***************************************************************************)
(* C8 as stated: after a worker has raised the run does not hang: as long  *)
(* as main has not returned, some process can take a step.                 *)
(***************************************************************************)
C8_NoHangOnFailure == (AnyRaised /\ main_pc # "finished") => ENABLED Next

(***************************************************************************)
(* C9 as stated: after the segment decoder has raised on a read without    *)
(* the segments tag, the run never reports normal completion.              *)
(***************************************************************************)
C9_FailurePropagated == WorkerRaised => main_pc # "finished"

(***************************************************************************)
(* C10 as stated: in bounded-region mode, when the labels of element       *)
(* template i occur as consecutive segments of the read exactly once, the  *)
(* call marks template i complete and writes one element for it, which     *)
(* spans from the first to the last segment of the occurrence with         *)
(* keep-delimiters, and from the second to the second-to-last without.     *)
(***************************************************************************)
\* The positions at which the labels of template occur as consecutive
\* segments.
Occurrences(template, segments) ==
    { p \in 1..(Len(segments) - Len(template) + 1) :
        \A k \in 1..Len(template) : segments[p + k - 1].name = template[k] }

C10_ExactlyOneElement ==
    (seg_pc \in {"returned", "raised"} /\ ~do_simple_splitting) =>
       \A i \in 1..Len(array_element_structure) :
          LET template == array_element_structure[i]
              segments == seg_read.segments
              occ == Occurrences(template, segments)
          IN  Cardinality(occ) = 1 =>
                 LET p == CHOOSE q \in occ : TRUE
                     first == IF keep_delimiters THEN p ELSE p + 1
                     last == IF keep_delimiters THEN p + Len(template) - 1
                             ELSE p + Len(template) - 2
                 IN  /\ seg_pc = "returned"
                     /\ delimiter_found[i]
                     /\ Cardinality({ j \in 1..Len(bam_out) :
                           /\ bam_out[j].start_coord = segments[first].start
                           /\ bam_out[j].end_coord = segments[last].end }) = 1

(***************************************************************************)
(* Vocabulary of the properties of one call of _write_segmented_read.      *)
(***************************************************************************)
\* The labels that occur in the template.
TemplateLabels ==
    UNION { { array_element_structure[i][k] :
                k \in 1..Len(array_element_structure[i]) } :
            i \in 1..Len(array_element_structure) }

\* The call has returned (it has not raised).
SegReturned == seg_pc = "returned"

(***************************************************************************)
(* C11. When no segment of the read carries a label of the template, a     *)
(* call in bounded-region mode writes nothing and returns 0, and a call in *)
(* simple mode returns 0 and writes exactly one element, the remainder     *)
(* [0, len(sequence) - 1] named START-END; neither raises.                 *)
(***************************************************************************)
NoTemplateLabel ==
    \A k \in 1..Len(seg_read.segments) :
        seg_read.segments[k].name \notin TemplateLabels

C11_NoMatchingLabel ==
    (seg_pc \in {"returned", "raised"} /\ NoTemplateLabel) =>
       /\ SegReturned
       /\ seg_return = 0
       /\ IF do_simple_splitting
          THEN /\ Len(bam_out) = 1
               /\ bam_out[1].start_coord = 0
               /\ bam_out[1].end_coord = seg_read.seq_len - 1
               /\ bam_out[1].query_name =
                     << seg_read.query_name, 0, seg_read.seq_len - 1,
                        <<"START">>, <<"END">> >>
               /\ Len(bam_out[1].query_sequence) = seg_read.seq_len
          ELSE bam_out = <<>>

C11_Witness ==
    /\ SegReturned /\ NoTemplateLabel /\ do_simple_splitting
    /\ Len(seg_read.segments) >= 2
    /\ Len(bam_out) = 1

(***************************************************************************)
(* C12 as stated: bounded-region splitting applied again, with the same    *)
(* template and flag, to an element it has written (the element's bases    *)
(* with the segment list attached to it) does not raise and yields no      *)
(* element or exactly one, and this one has the span, the bases and the    *)
(* segment list of the element it was applied to.                          *)
(***************************************************************************)
\* A written record taken as the read of a further call: its name, its
\* bases and the segments of its tag (command.py:436-450).  An element
\* written without bases has seq_len 0: its query_sequence is None.
ElementAsRead(e) ==
    [ query_name |-> e.query_name, has_tag |-> TRUE,
      segments |-> e.segments_tag, seq_len |-> Len(e.query_sequence) ]

\* The second call, on element e of the first; it raises at the first
\* element it would write when e holds no bases.
Resplit(e) ==
    write_segmented_read(array_element_structure, ElementAsRead(e),
                         e.segments_tag, FALSE, keep_delimiters)

\* Element r of the second call, whose bases are positions in e, has the
\* span, the bases and the segments of e.
SameElement(e, r) ==
    /\ r.start_coord = e.start_coord
    /\ r.end_coord = e.end_coord
    /\ r.segments_tag = e.segments_tag
    /\ [k \in 1..Len(r.query_sequence) |->
           e.query_sequence[r.query_sequence[k] + 1]] = e.query_sequence

C12_Idempotent ==
    (SegReturned /\ ~do_simple_splitting) =>
       \A j \in 1..Len(bam_out) :
          \A r \in {Resplit(bam_out[j])} :
             /\ ~r.raised
             /\ Len(r.elements) <= 1
             /\ Len(r.elements) = 1 => SameElement(bam_out[j], r.elements[1])


(***************************************************************************)
(* C13 as stated: every element written, in either mode and with either    *)
(* keep-delimiters setting, for a read whose segments are ascending, do    *)
(* not overlap and lie inside the read, has                                *)
(* 0 <= start_coord <= end_coord <= len(sequence) - 1 and carries          *)
(* end_coord - start_coord + 1 bases.                                      *)
(***************************************************************************)
C13_CoordinateContainment ==
    \A j \in 1..Len(bam_out) :
       /\ 0 <= bam_out[j].start_coord
       /\ bam_out[j].start_coord <= bam_out[j].end_coord
       /\ bam_out[j].end_coord <= seg_read.seq_len - 1
       /\ Len(bam_out[j].query_sequence) =
             bam_out[j].end_coord - bam_out[j].start_coord + 1

(***************************************************************************)
(* C14. The segment list attached to a written element holds exactly the   *)
(* segments s of the list handed to _write_split_array_element with        *)
(* seg_start_coord <= s.start <= seg_end_coord, in their order.  In simple *)
(* mode the list is the read's and the span runs from the element's start  *)
(* to the end of the delimiter that closes it (the read's end for the last *)
(* element); in bounded-region mode the list is the template's captured    *)
(* segments and the span runs from the first to the last of them.  Without *)
(* keep-delimiters the bounding delimiter segments stay attached although  *)
(* their bases lie outside [start_coord, end_coord].                       *)
(***************************************************************************)
\* The segments of list that start inside [lo, hi], in their order.
StartingIn(list, lo, hi) ==
    SelectSeq(list, LAMBDA s : lo <= s.start /\ s.start <= hi)

\* The template that the j-th element of a bounded-region call belongs to.
FoundTemplate(j) ==
    CHOOSE i \in 1..Len(delimiter_found) :
        /\ delimiter_found[i]
        /\ Cardinality({k \in 1..i : delimiter_found[k]}) = j

\* seg_end_coord of the j-th element of a simple call, read off the output:
\* without keep-delimiters the next element starts one base after it.
SimpleSpanEnd(j) ==
    IF keep_delimiters \/ j = Len(bam_out)
    THEN bam_out[j].end_coord
    ELSE bam_out[j + 1].start_coord - 1

C14_SegmentFilter ==
    seg_pc \in {"returned", "raised"} =>
       \A j \in 1..Len(bam_out) :
          LET e == bam_out[j]
          IN  IF do_simple_splitting
              THEN /\ e.segments_tag =
                         StartingIn(seg_read.segments, e.start_coord, SimpleSpanEnd(j))
                   /\ (~keep_delimiters /\ j < Len(bam_out)) =>
                         \E k \in 1..Len(e.segments_tag) :
                            e.segments_tag[k].start > e.end_coord
              ELSE LET seg_list == delimiter_segments[FoundTemplate(j)]
                   IN  /\ e.segments_tag =
                             StartingIn(seg_list, seg_list[1].start,
                                        seg_list[Len(seg_list)].end)
                       /\ e.segments_tag = seg_list
                       /\ ~keep_delimiters =>
                             /\ e.segments_tag[1].start < e.start_coord
                             /\ e.segments_tag[Len(seg_list)].start > e.end_coord

C14_Witness ==
    /\ SegReturned /\ do_simple_splitting /\ ~keep_delimiters
    /\ Len(bam_out) >= 3
    /\ \E j \in 1..Len(bam_out) :
          /\ Len(bam_out[j].query_sequence) >= 1
          /\ Len(bam_out[j].segments_tag) >= 2
          /\ Len(bam_out[j].segments_tag) < Len(seg_read.segments)

(***************************************************************************)
(* C15. Simple mode without keep-delimiters: with the completed boundary   *)
(* pairs taken in ascending order of their start segment's coordinate,     *)
(* whichever window they come from, the k-th element spans from one base   *)
(* after the previous delimiter's last segment (base 0 for the first       *)
(* element) to one base before the k-th delimiter's first segment; the     *)
(* final element spans from one base after the last delimiter's last       *)
(* segment to the read's last base; the call returns the number of         *)
(* completed pairs and writes that number + 1 elements.                    *)
(***************************************************************************)
\* The windows whose (start, end) pair is recorded.
CompletedWindows ==
    { i \in 1..Len(delimiter_end_segment_tuples) :
        delimiter_end_segment_tuples[i] # <<>> }

\* The completed window that comes k-th by the coordinate of its start
\* segment (ties by window index).
WindowAtRank(k) ==
    CHOOSE i \in CompletedWindows :
       Cardinality({ j \in CompletedWindows :
          \/ delimiter_start_segments[j][1].start < delimiter_start_segments[i][1].start
          \/ /\ delimiter_start_segments[j][1].start = delimiter_start_segments[i][1].start
             /\ j <= i }) = k

C15_SimpleDiscardSpans ==
    (SegReturned /\ do_simple_splitting /\ ~keep_delimiters) =>
       LET n == Cardinality(CompletedWindows)
           PrevEnd(k) == IF k = 1 THEN 0
                         ELSE delimiter_end_segment_tuples[WindowAtRank(k - 1)][2].end + 1
       IN  /\ seg_return = n
           /\ Len(bam_out) = n + 1
           /\ \A k \in 1..n :
                 /\ bam_out[k].start_coord = PrevEnd(k)
                 /\ bam_out[k].end_coord =
                       delimiter_start_segments[WindowAtRank(k)][1].start - 1
           /\ bam_out[n + 1].start_coord = PrevEnd(n + 1)
           /\ bam_out[n + 1].end_coord = seg_read.seq_len - 1

\* Windows (A,B) and (C) on segments [.., C, x, A, B] or [A, B, x, C]: two
\* pairs, an element strictly between the two delimiters.
C15_Witness ==
    /\ SegReturned /\ do_simple_splitting /\ ~keep_delimiters
    /\ Cardinality(CompletedWindows) = 2
    /\ WindowAtRank(1) = 2
    /\ Len(bam_out) = 3
    /\ Len(bam_out[2].query_sequence) >= 1

(***************************************************************************)
(* C16. Bounded-region mode: scanning a segment leaves the score of a      *)
(* completed template alone, adds 2 to the score of a template whose       *)
(* expected label the segment carries (exact match), adds 1 when the       *)
(* template has a partial match and the segment carries one of its later   *)
(* labels (peek-ahead match), and sets the score to 0 otherwise (reset):   *)
(* the score is 2 x exact matches + 1 x peek-ahead matches since the last  *)
(* reset.  Template [L1,L2,L3] completes on [L1,L2,L3] with score 6 and on *)
(* [L1,L3] with score 3.                                                   *)
(***************************************************************************)
\* The labels of the segments scanned so far.
ScannedNames == [k \in 1..seg_pos |-> seg_read.segments[k].name]

C16_ScoreStep ==
    (seg_pc = "scan" /\ ~do_simple_splitting /\ seg_pos' = seg_pos + 1) =>
       \A i \in 1..Len(array_element_structure) :
          LET d == array_element_structure[i]
              c == delimiter_match_matrix[i]
              label == seg_read.segments[seg_pos + 1].name
              exact == c < Len(d) /\ label = d[c + 1]
              peek == /\ c # 0
                      /\ \E k \in (c + 2)..Len(d) : label = d[k]
          IN  delimiter_score'[i] =
                 IF delimiter_found[i] THEN delimiter_score[i]
                 ELSE IF exact THEN delimiter_score[i] + 2
                 ELSE IF peek THEN delimiter_score[i] + 1
                 ELSE 0

C16_ScoreExamples ==
    (~do_simple_splitting /\ seg_pc = "scan") =>
       \A i \in 1..Len(array_element_structure) :
          LET d == array_element_structure[i]
          IN  Len(d) = 3 =>
                 /\ ScannedNames = d =>
                       delimiter_found[i] /\ delimiter_score[i] = 6
                 /\ ScannedNames = <<d[1], d[3]>> =>
                       delimiter_found[i] /\ delimiter_score[i] = 3

C16_Score == [][C16_ScoreStep]_vars /\ []C16_ScoreExamples

\* Template [A,B,C] completed on segments [A,C] through one peek-ahead jump.
C16_Witness ==
    /\ ~do_simple_splitting /\ seg_pc = "scan"
    /\ array_element_structure[1] = <<"A", "B", "C">>
    /\ ScannedNames = <<"A", "C">>
    /\ delimiter_found[1] /\ delimiter_score[1] = 3

(***************************************************************************)
(* C17 as stated: the effective worker count is the requested count        *)
(* clamped to [1, P], P the number of CPUs: a request below 1 becomes 1, a *)
(* request above P becomes P, a request within [1, P] is kept.             *)
(***************************************************************************)
C17_ClampedToRange ==
    main_pc = "started" =>
       threads = IF threads_arg < 1 THEN 1
                 ELSE IF threads_arg > cpu_count THEN cpu_count
                 ELSE threads_arg

(***************************************************************************)
(* C17 amended: a request within [1, P] is used unchanged; a request below *)
(* 1 (0 stands for "all") or above P becomes P; the effective count is     *)
(* never below 1 nor above P; the default request P - 1 gives P - 1        *)
(* workers, and 1 worker when P = 1.                                       *)
(***************************************************************************)
C17_EffectiveThreads ==
    main_pc = "started" =>
       /\ threads_arg \in 1..cpu_count => threads = threads_arg
       /\ threads_arg < 1 => threads = cpu_count
       /\ threads_arg > cpu_count => threads = cpu_count
       /\ threads \in 1..cpu_count
       /\ threads_arg = DefaultThreads(cpu_count) =>
             threads = IF cpu_count = 1 THEN 1 ELSE cpu_count - 1

C17_Witness ==
    /\ main_pc = "started"
    /\ threads_arg < 1
    /\ cpu_count >= 2
    /\ threads = cpu_count

(***************************************************************************)
(* C18 as stated: when the writer exits, the number of reads it reports is *)
(* the number of results it consumed (the number of input records when no  *)
(* process raised), and the number of elements it reports is the number of *)
(* records it wrote to the output, in simple and in bounded-region mode.   *)
(***************************************************************************)
C18_WriterTotals ==
    writer_pc = "exited" =>
       /\ num_reads_segmented = Len(debug_log)
       /\ ~AnyRaised => num_reads_segmented = NumReads
       /\ num_segments = Len(out_bam_file)

(***************************************************************************)
(* C19. Simple mode: scanning a segment changes each delimiter window from *)
(* its own counter and captured start alone.  A window that is complete    *)
(* is left as it is; a segment with the window's next expected label       *)
(* advances the counter, is captured as start when the counter was 0, and  *)
(* records the (start, end) pair when the counter reaches the window       *)
(* length; any other segment resets counter, start and pair to empty.      *)
(* Hence every recorded pair brackets consecutive segments of the list     *)
(* that carry the window's labels in order, without gap or reordering.     *)
(***************************************************************************)
C19_WindowStep ==
    (seg_pc = "scan" /\ do_simple_splitting /\ seg_pos' = seg_pos + 1) =>
       \A i \in 1..Len(delimiter_match_matrix) :
          LET d == SimpleDelimiters(array_element_structure)[i]
              c == delimiter_match_matrix[i]
              seg == seg_read.segments[seg_pos + 1]
          IN  IF c = Len(d)
              THEN /\ delimiter_match_matrix'[i] = c
                   /\ delimiter_start_segments'[i] = delimiter_start_segments[i]
                   /\ delimiter_end_segment_tuples'[i] = delimiter_end_segment_tuples[i]
              ELSE IF seg.name = d[c + 1]
              THEN /\ delimiter_match_matrix'[i] = c + 1
                   /\ delimiter_start_segments'[i] =
                         IF c = 0 THEN <<seg>> ELSE delimiter_start_segments[i]
                   /\ delimiter_end_segment_tuples'[i] =
                         IF c + 1 = Len(d)
                         THEN <<delimiter_start_segments'[i][1], seg>>
                         ELSE <<>>
              ELSE /\ delimiter_match_matrix'[i] = 0
                   /\ delimiter_start_segments'[i] = <<>>
                   /\ delimiter_end_segment_tuples'[i] = <<>>

C19_PairsContiguous ==
    do_simple_splitting =>
       \A i \in 1..Len(delimiter_end_segment_tuples) :
          LET d == SimpleDelimiters(array_element_structure)[i]
              segs == seg_read.segments
          IN  delimiter_end_segment_tuples[i] # <<>> =>
                 \E p \in 1..(seg_pos - Len(d) + 1) :
                    /\ \A k \in 1..Len(d) : segs[p + k - 1].name = d[k]
                    /\ delimiter_start_segments[i] = <<segs[p]>>
                    /\ delimiter_end_segment_tuples[i] =
                          <<segs[p], segs[p + Len(d) - 1]>>

C19_SimpleWindows == [][C19_WindowStep]_vars /\ []C19_PairsContiguous

\* A window of two labels that was reset after a partial match and then
\* completed further on.
C19_Witness ==
    /\ do_simple_splitting /\ seg_pc = "scan"
    /\ \E i \in 1..Len(delimiter_end_segment_tuples) :
          LET d == SimpleDelimiters(array_element_structure)[i]
          IN  /\ Len(d) = 2
              /\ delimiter_end_segment_tuples[i] # <<>>
              /\ seg_read.segments[1].name = d[1]
              /\ delimiter_start_segments[i][1].start > seg_read.segments[2].start

(***************************************************************************)
(* C20 as stated: simple mode with keep-delimiters: with the completed     *)
(* boundary pairs in ascending order, the k-th element spans from the end  *)
(* coordinate of the previous delimiter's last segment (base 0 for the     *)
(* first element) to the end coordinate of the k-th delimiter's last       *)
(* segment.                                                                *)
(***************************************************************************)
C20_FromPreviousEnd ==
    (SegReturned /\ do_simple_splitting /\ keep_delimiters) =>
       \A k \in 1..Cardinality(CompletedWindows) :
          /\ bam_out[k].start_coord =
                IF k = 1 THEN 0
                ELSE delimiter_end_segment_tuples[WindowAtRank(k - 1)][2].end
          /\ bam_out[k].end_coord =
                delimiter_end_segment_tuples[WindowAtRank(k)][2].end

(***************************************************************************)
(* C20 amended: simple mode with keep-delimiters: the k-th element spans   *)
(* from the start coordinate of the previous delimiter's first segment     *)
(* (base 0 for the first element) to the end coordinate of the k-th        *)
(* delimiter's last segment, so that a delimiter's bases are in both       *)
(* elements it bounds; the final element spans from the start of the last  *)
(* delimiter's first segment to the read's last base.                      *)
(***************************************************************************)
C20_FromPreviousStart ==
    (SegReturned /\ do_simple_splitting /\ keep_delimiters) =>
       LET n == Cardinality(CompletedWindows)
           PrevStart(k) == IF k = 1 THEN 0
                           ELSE delimiter_start_segments[WindowAtRank(k - 1)][1].start
       IN  /\ Len(bam_out) = n + 1
           /\ \A k \in 1..n :
                 /\ bam_out[k].start_coord = PrevStart(k)
                 /\ bam_out[k].end_coord =
                       delimiter_end_segment_tuples[WindowAtRank(k)][2].end
           /\ bam_out[n + 1].start_coord = PrevStart(n + 1)
           /\ bam_out[n + 1].end_coord = seg_read.seq_len - 1

C20_Witness ==
    /\ SegReturned /\ do_simple_splitting /\ keep_delimiters
    /\ Cardinality(CompletedWindows) = 2
    /\ bam_out[2].start_coord <
          delimiter_end_segment_tuples[WindowAtRank(1)][2].end
    /\ bam_out[2].end_coord > bam_out[1].end_coord

(***************************************************************************)
(* C21 as stated: bounded-region mode writes the elements of the completed *)
(* templates in read order: when the region captured for one template      *)
(* starts earlier in the read than the region captured for another, its    *)
(* element is written first, whatever the indices of the two templates.    *)
(***************************************************************************)
C21_ReadOrder ==
    (seg_pc \in {"returned", "raised"} /\ ~do_simple_splitting) =>
       \A j1, j2 \in 1..Len(bam_out) :
          delimiter_segments[FoundTemplate(j1)][1].start
             < delimiter_segments[FoundTemplate(j2)][1].start
          => j1 < j2

(***************************************************************************)
(* C22. Bounded-region mode, a segment whose label is not the next         *)
(* expected label of a template that is not complete: with the counter at  *)
(* 0 nothing is tried and the template stays cleared; with the counter     *)
(* above 0 the later positions of the template are tried in order, and at  *)
(* the first that carries the segment's label the counter moves just past  *)
(* that position and the segment is captured (score + 1); when none does,  *)
(* counter, captured segments and score are cleared.  The captured         *)
(* segments of a template are always the consecutive segments scanned      *)
(* since its last reset, so none captured before a reset is part of a      *)
(* later completed match.                                                  *)
(***************************************************************************)
C22_MismatchStep ==
    (seg_pc = "scan" /\ ~do_simple_splitting /\ seg_pos' = seg_pos + 1) =>
       \A i \in 1..Len(array_element_structure) :
          LET d == array_element_structure[i]
              c == delimiter_match_matrix[i]
              seg == seg_read.segments[seg_pos + 1]
              later == { k \in (c + 2)..Len(d) : d[k] = seg.name }
              cleared == /\ delimiter_match_matrix'[i] = 0
                         /\ delimiter_segments'[i] = <<>>
                         /\ delimiter_score'[i] = 0
                         /\ ~delimiter_found'[i]
          IN  (~delimiter_found[i] /\ c < Len(d) /\ seg.name # d[c + 1]) =>
                 IF c = 0 THEN cleared
                 ELSE IF later # {}
                 THEN LET first == CHOOSE k \in later : \A q \in later : k <= q
                      IN  /\ delimiter_match_matrix'[i] = first
                          /\ delimiter_segments'[i] =
                                Append(delimiter_segments[i], seg)
                          /\ delimiter_score'[i] = delimiter_score[i] + 1
                 ELSE cleared

C22_CapturedSinceReset ==
    (~do_simple_splitting /\ seg_pc = "scan") =>
       \A i \in 1..Len(array_element_structure) :
          LET n == Len(delimiter_segments[i])
          IN  /\ delimiter_match_matrix[i] = 0 =>
                    n = 0 /\ delimiter_score[i] = 0
              /\ \E q \in n..seg_pos :
                    /\ ~delimiter_found[i] => q = seg_pos
                    /\ delimiter_segments[i] =
                          SubSeq(seg_read.segments, q - n + 1, q)

C22_PeekAhead == [][C22_MismatchStep]_vars /\ []C22_CapturedSinceReset

\* Template [A,B,x,x] after segments [A,x]: of the two later positions that
\* carry x the first is taken, the counter stands at 3.
C22_Witness ==
    /\ ~do_simple_splitting /\ seg_pc = "scan"
    /\ array_element_structure[1] = <<"A", "B", "x", "x">>
    /\ ScannedNames = <<"A", "x">>
    /\ delimiter_match_matrix[1] = 3
    /\ Len(delimiter_segments[1]) = 2
    /\ ~delimiter_found[1]

(***************************************************************************)
(* C23. Bounded-region mode: a call that returns has written one element   *)
(* for each template marked complete and none for any other template, and  *)
(* returns their number, which is at most the number of templates; a       *)
(* template with only partial progress at the end of the read writes       *)
(* nothing.  (A call raises instead of returning only when a completed     *)
(* template has captured too few segments to take the span from: none, or  *)
(* one without keep-delimiters.)                                           *)
(***************************************************************************)
CompletedTemplates == { i \in 1..Len(delimiter_found) : delimiter_found[i] }

C23_BoundedCount ==
    (seg_pc \in {"returned", "raised"} /\ ~do_simple_splitting) =>
       /\ Len(bam_out) <= Cardinality(CompletedTemplates)
       /\ Cardinality(CompletedTemplates) <= Len(array_element_structure)
       /\ \A j \in 1..Len(bam_out) :
             bam_out[j].segments_tag = delimiter_segments[FoundTemplate(j)]
       /\ SegReturned =>
             /\ seg_return = Cardinality(CompletedTemplates)
             /\ Len(bam_out) = Cardinality(CompletedTemplates)
       /\ seg_pc = "raised" =>
             \E i \in CompletedTemplates :
                \/ Len(delimiter_segments[i]) = 0
                \/ ~keep_delimiters /\ Len(delimiter_segments[i]) = 1

\* One template complete, another left with partial progress.
C23_Witness ==
    /\ SegReturned /\ ~do_simple_splitting
    /\ Cardinality(CompletedTemplates) = 1
    /\ Len(bam_out) = 1
    /\ \E i \in 1..Len(delimiter_found) :
          ~delimiter_found[i] /\ delimiter_match_matrix[i] > 0

(***************************************************************************)
(* C24. Simple mode: once a window has recorded its (start, end) pair, its *)
(* counter, start and pair stay as they are for the rest of the call,      *)
(* whatever the later segments carry: the first complete match wins.  A    *)
(* window has recorded a pair exactly if its counter stands at the window  *)
(* length, each window gives at most one boundary, and the value returned  *)
(* is the number of such windows, at most the number of windows.           *)
(***************************************************************************)
C24_CompleteStays ==
    do_simple_splitting =>
       \A i \in 1..Len(delimiter_end_segment_tuples) :
          delimiter_end_segment_tuples[i] # <<>> =>
             /\ delimiter_match_matrix'[i] = delimiter_match_matrix[i]
             /\ delimiter_start_segments'[i] = delimiter_start_segments[i]
             /\ delimiter_end_segment_tuples'[i] = delimiter_end_segment_tuples[i]

C24_OnePairPerWindow ==
    do_simple_splitting =>
       /\ \A i \in 1..Len(delimiter_end_segment_tuples) :
             delimiter_end_segment_tuples[i] # <<>> <=>
                delimiter_match_matrix[i] =
                   Len(SimpleDelimiters(array_element_structure)[i])
       /\ SegReturned =>
             /\ seg_return = Cardinality(CompletedWindows)
             /\ seg_return <= Len(SimpleDelimiters(array_element_structure))
             /\ Len(bam_out) = seg_return + 1

C24_FirstMatchWins == [][C24_CompleteStays]_vars /\ []C24_OnePairPerWindow

\* A window completed on the first segments of the read, and its labels
\* scanned once more after that.
C24_Witness ==
    /\ do_simple_splitting /\ seg_pc = "scan"
    /\ \E i \in 1..Len(delimiter_end_segment_tuples) :
          LET d == SimpleDelimiters(array_element_structure)[i]
          IN  /\ Len(d) = 2
              /\ delimiter_end_segment_tuples[i] # <<>>
              /\ delimiter_start_segments[i][1].start = 0
              /\ seg_pos = 4
              /\ ScannedNames = d \o d

(***************************************************************************)
(* C25. Bounded-region mode with templates of at least one label: in every *)
(* state of a call the counter of a template lies between 0 and the        *)
(* template's length, the template has captured at most as many segments   *)
(* as its counter says, and it is marked complete exactly if the counter   *)
(* equals the length.  Hence no segment is ever scanned for a template     *)
(* that is not marked complete while its counter is out of the template's  *)
(* range: the IndexError branch is never taken.                            *)
(***************************************************************************)
C25_CounterBounds ==
    (~do_simple_splitting /\ seg_pc # "idle") =>
       \A i \in 1..Len(array_element_structure) :
          LET d == array_element_structure[i]
          IN  Len(d) >= 1 =>
                 /\ 0 <= delimiter_match_matrix[i]
                 /\ delimiter_match_matrix[i] <= Len(d)
                 /\ Len(delimiter_segments[i]) <= delimiter_match_matrix[i]
                 /\ delimiter_found[i] <=> delimiter_match_matrix[i] = Len(d)
                 /\ ~(~delimiter_found[i] /\ delimiter_match_matrix[i] >= Len(d))

\* A template completed through a jump: fewer segments captured than labels.
C25_Witness ==
    /\ ~do_simple_splitting /\ seg_pc = "scan"
    /\ seg_pos < Len(seg_read.segments)
    /\ \E i \in 1..Len(array_element_structure) :
          /\ delimiter_found[i]
          /\ Len(delimiter_segments[i]) < delimiter_match_matrix[i]
          /\ delimiter_match_matrix[i] = Len(array_element_structure[i])

(***************************************************************************)
(* C26 as stated: simple mode: when the labels of a delimiter window occur *)
(* as consecutive segments somewhere in the read, the call has recorded a  *)
(* pair for that window, whatever segments precede the occurrence.         *)
(***************************************************************************)
C26_OccurrenceCompletes ==
    (SegReturned /\ do_simple_splitting) =>
       \A i \in 1..Len(delimiter_end_segment_tuples) :
          Occurrences(SimpleDelimiters(array_element_structure)[i],
                      seg_read.segments) # {}
          => delimiter_end_segment_tuples[i] # <<>>

(***************************************************************************)
(* C27 as stated: decoding, as _get_segments does, the text of the         *)
(* segments tag written for an element gives exactly the segments that     *)
(* were attached to the element, in the same order, whether none, one or   *)
(* several were attached.                                                  *)
(***************************************************************************)
C27_TagRoundTrip ==
    seg_pc \in {"returned", "raised"} =>
       \A j \in 1..Len(bam_out) :
          \A r \in {DecodeTag(bam_out[j].sg_tag)} :
             /\ ~r.malformed
             /\ r.pieces = Len(bam_out[j].segments_tag)
             /\ r.segments = bam_out[j].segments_tag

=============================================================================
